---- MODULE Spec2Model ----
(***************************************************************************)
(* Model of woozie: the compilation of a workflow (named actions with      *)
(* declared dependencies, optional error handler) into a structured        *)
(* fork/join control-flow graph (woozie/domain/workflowgraph.py,           *)
(* WorkflowGraphBuilder) and its emission as an Oozie document             *)
(* (oozieworkflow.py, OozieWorkflow).                                      *)
(*                                                                         *)
(* A networkx DiGraph is modelled as a record [nodes, edges] of two sets.  *)
(* The library keeps nodes and neighbours in insertion order; the order is *)
(* observable only through `lst[0]` on a list of nodes, through            *)
(* next(G.neighbors(n)) and through topological_sort.  Wherever the code   *)
(* takes the first element of such a list the model leaves the choice      *)
(* among the candidates open (\E), restricted by what insertion order      *)
(* fixes (nodes of the left operand of compose precede those of the        *)
(* right); topological_sort is any valid topological order.                *)
(***************************************************************************)
EXTENDS Integers, Sequences, FiniteSets, TLC

\* Largest number of actions in an input workflow.
MaxActions == 4

\* The calls of build_workflow_graph on one workflow.
MaxRuns == 2

\* Action names of the inputs; "X" is a name no action carries.
Alphabet == <<"A", "B", "C", "D", "E", "F", "G", "I">>
Unknown == "X"

\* f"fork-{count}" and f"join-{count}" for count = 0, 1, ... (index count + 1).
ForkNames == <<"fork-0", "fork-1", "fork-2", "fork-3", "fork-4", "fork-5", "fork-6", "fork-7">>
JoinNames == <<"join-0", "join-1", "join-2", "join-3", "join-4", "join-5", "join-6", "join-7">>

\* A graph node: an Action, identified here by its name and action_type.
Action(name, action_type) == [name |-> name, action_type |-> action_type]

\* Optional[Action] = None
None == Action("None", "None")

\* The names the error handler of an input may carry.
HandlerNames == {"error_handler", "H"}

-----------------------------------------------------------------------------
(* networkx.DiGraph *)

DiGraph == [nodes |-> {}, edges |-> {}]

\* G.add_edges_from(edges): adds the edges and their end points.
add_edges_from(G, edges) ==
    [nodes |-> G.nodes \cup {e[1] : e \in edges} \cup {e[2] : e \in edges},
     edges |-> G.edges \cup edges]

add_nodes_from(G, nodes) == [G EXCEPT !.nodes = @ \cup nodes]

remove_nodes_from(G, nodes) ==
    [nodes |-> G.nodes \ nodes,
     edges |-> {e \in G.edges : e[1] \notin nodes /\ e[2] \notin nodes}]

\* G.subgraph(nodes).copy(): the induced subgraph.
subgraph(G, nodes) ==
    [nodes |-> G.nodes \cap nodes,
     edges |-> {e \in G.edges : e[1] \in nodes /\ e[2] \in nodes}]

compose(G, H) == [nodes |-> G.nodes \cup H.nodes, edges |-> G.edges \cup H.edges]

RECURSIVE compose_all(_)
compose_all(graphs) ==
    IF graphs = {} THEN DiGraph
    ELSE LET g == CHOOSE x \in graphs : TRUE
         IN  compose(g, compose_all(graphs \ {g}))

number_of_nodes(G) == Cardinality(G.nodes)

successors(G, n) == {e[2] : e \in {d \in G.edges : d[1] = n}}
predecessors(G, n) == {e[1] : e \in {d \in G.edges : d[2] = n}}
in_degree(G, n) == Cardinality(predecessors(G, n))
out_degree(G, n) == Cardinality(successors(G, n))

\* Variant of the gate that looks for self-dependencies only.
no_self_dependency(G) == \A e \in G.edges : e[1] # e[2]

\* Kahn's elimination: a graph is acyclic iff removing in-degree-0 nodes
\* again and again empties it (a self-loop never reaches in-degree 0).
RECURSIVE is_directed_acyclic_graph(_)
is_directed_acyclic_graph(G) ==
    IF G.nodes = {} THEN TRUE
    ELSE LET free == {n \in G.nodes : in_degree(G, n) = 0}
         IN  IF free = {} THEN FALSE
             ELSE is_directed_acyclic_graph(remove_nodes_from(G, free))

\* The nodes connected to the nodes of `seen`, edge direction ignored.
RECURSIVE plain_bfs(_, _)
plain_bfs(G, seen) ==
    LET more == {n \in G.nodes \ seen :
                    \E e \in G.edges : (e[1] \in seen /\ e[2] = n)
                                    \/ (e[2] \in seen /\ e[1] = n)}
    IN  IF more = {} THEN seen ELSE plain_bfs(G, seen \cup more)

\* The node sets of the weakly connected components.
weakly_connected_components(G) == {plain_bfs(G, {n}) : n \in G.nodes}

number_weakly_connected_components(G) == Cardinality(weakly_connected_components(G))

-----------------------------------------------------------------------------
(* WorkflowGraphBuilder: pure helpers *)

entry_nodes(G) == {node \in G.nodes : in_degree(G, node) = 0}

exit_nodes(G) == {node \in G.nodes : out_degree(G, node) = 0}

\* Variant of single_edge_path that takes the only child whenever it has
\* no other parent.
RECURSIVE single_edge_path_any_out_degree(_, _)
single_edge_path_any_out_degree(G, source) ==
    LET children == successors(G, source)
    IN  IF Cardinality(children) = 1
        THEN LET s == CHOOSE c \in children : TRUE
             IN  IF in_degree(G, s) = 1
                 THEN <<source>> \o single_edge_path_any_out_degree(G, s)
                 ELSE <<source>>
        ELSE <<source>>

\* Contiguous nodes with one single edge in and out, walked from `source`.
\* The walk continues to the only child s of the current node when s has
\* in-degree 1 and out-degree 1, and ends otherwise.
RECURSIVE single_edge_path(_, _)
single_edge_path(G, source) ==
    LET children == successors(G, source)
    IN  IF Cardinality(children) = 1
        THEN LET s == CHOOSE c \in children : TRUE
             IN  IF in_degree(G, s) = 1 /\ out_degree(G, s) = 1
                 THEN <<source>> \o single_edge_path(G, s)
                 ELSE <<source>>
        ELSE <<source>>

Range(seq) == {seq[i] : i \in 1..Len(seq)}

\* A walk like single_edge_path that takes the only child whenever it has
\* one child itself, whatever its parents.
RECURSIVE single_edge_path_any_in_degree(_, _)
single_edge_path_any_in_degree(G, source) ==
    LET children == successors(G, source)
    IN  IF Cardinality(children) = 1
        THEN LET s == CHOOSE c \in children : TRUE
             IN  IF out_degree(G, s) = 1
                 THEN <<source>> \o single_edge_path_any_in_degree(G, s)
                 ELSE <<source>>
        ELSE <<source>>

\* Variant of forkless_paths whose chains run through joining nodes.
forkless_paths_joining(G) ==
    {single_edge_path_any_in_degree(G, start) :
        start \in {node \in G.nodes : in_degree(G, node) = 0}}

\* paths = [single_edge_path(G, start) for start in roots]
forkless_paths(G) ==
    {single_edge_path(G, start) : start \in {node \in G.nodes : in_degree(G, node) = 0}}

\* paths_flatten = [node for path in paths for node in path]
paths_flatten(G) == UNION {Range(path) : path \in forkless_paths(G)}

\* Variant of add_fork_join that returns the count it was given.
add_fork_join_stale_count(G, count) ==
    LET fork == Action(ForkNames[count + 1], "fork")
        join == Action(JoinNames[count + 1], "join")
        fork_edges == {<<fork, node>> : node \in {n \in G.nodes : in_degree(G, n) = 0}}
        join_edges == {<<node, join>> : node \in {n \in G.nodes : out_degree(G, n) = 0}}
    IN  [edges |-> fork_edges \cup join_edges, count |-> count]

\* Create a fork/join pair: the edges to add and the next count.
add_fork_join(G, count) ==
    LET fork == Action(ForkNames[count + 1], "fork")
        join == Action(JoinNames[count + 1], "join")
        fork_edges == {<<fork, node>> : node \in entry_nodes(G)}
        join_edges == {<<node, join>> : node \in exit_nodes(G)}
    IN  [edges |-> fork_edges \cup join_edges, count |-> count + 1]

\* Variant of fork_join_segment that leaves the join edges out.
fork_join_segment_unjoined(G, count) ==
    LET result == subgraph(G, paths_flatten(G))
        fork == Action(ForkNames[count + 1], "fork")
    IN  add_edges_from(result, {<<fork, node>> : node \in entry_nodes(result)})

\* The segment of one pass with several paths: the paths wrapped in a
\* fresh fork/join pair.
fork_join_segment(G, count) ==
    LET result == subgraph(G, paths_flatten(G))
    IN  add_edges_from(result, add_fork_join(result, count).edges)

NoError == ""
CyclicError == "DAG incorrectly defined. Cyclic dependencies found."
MissingError == "Missing action for dependencies"
StartEndError == "Multiple transitions found for start/end nodes"
ErrorNodeError == "Multiple transitions found for error node"
KeyError == "KeyError"

\* Variant of add_start_end that returns the start edges only.
add_start_only(G) ==
    LET start == {<<Action("start", "start"), node>> : node \in entry_nodes(G)}
        end == {<<node, Action("end", "end")>> : node \in exit_nodes(G)}
    IN  IF Cardinality(start) # 1 \/ Cardinality(end) # 1
        THEN [raised |-> StartEndError, edges |-> {}]
        ELSE [raised |-> NoError, edges |-> start]

\* Create head and tail nodes: the edges to add, or the error raised.
add_start_end(G) ==
    LET start == {<<Action("start", "start"), node>> : node \in entry_nodes(G)}
        end == {<<node, Action("end", "end")>> : node \in exit_nodes(G)}
    IN  IF Cardinality(start) # 1 \/ Cardinality(end) # 1
        THEN [raised |-> StartEndError, edges |-> {}]
        ELSE [raised |-> NoError, edges |-> start \cup end]

add_error_node(G, error_node) ==
    LET edge == {<<node, error_node>> : node \in exit_nodes(G)}
    IN  IF Cardinality(edge) # 1
        THEN [raised |-> ErrorNodeError, edges |-> {}]
        ELSE [raised |-> NoError, edges |-> edge]

\* Variant of process_components that attaches the error handler only
\* inside the branch that parallelizes several components.
process_components_handler_nested(G, count, error_handler) ==
    LET fj == add_fork_join(G, count)
        parallel == number_weakly_connected_components(G) > 1
        G1 == IF parallel THEN add_edges_from(G, fj.edges) ELSE G
        count1 == IF parallel THEN fj.count ELSE count
        err == add_error_node(G1, error_handler)
        attach == parallel /\ error_handler # None
        failed == attach /\ err.raised # NoError
        G2 == IF attach THEN add_edges_from(G1, err.edges) ELSE G1
        control == add_start_end(G2)
    IN  IF failed
        THEN [raised |-> err.raised, G |-> G1, fork_count |-> count1]
        ELSE IF control.raised # NoError
        THEN [raised |-> control.raised, G |-> G2, fork_count |-> count1]
        ELSE [raised |-> NoError, G |-> add_edges_from(G2, control.edges),
              fork_count |-> count1]

\* Variant of process_components that wraps the composed graph in a
\* fork/join pair when it has one component too (>= 1 for > 1).
process_components_always_parallel(G, count, error_handler) ==
    LET fj == add_fork_join(G, count)
        parallel == number_weakly_connected_components(G) >= 1
        G1 == IF parallel THEN add_edges_from(G, fj.edges) ELSE G
        count1 == IF parallel THEN fj.count ELSE count
        err == add_error_node(G1, error_handler)
        failed == error_handler # None /\ err.raised # NoError
        G2 == IF error_handler # None THEN add_edges_from(G1, err.edges) ELSE G1
        control == add_start_end(G2)
    IN  IF failed
        THEN [raised |-> err.raised, G |-> G1, fork_count |-> count1]
        ELSE IF control.raised # NoError
        THEN [raised |-> control.raised, G |-> G2, fork_count |-> count1]
        ELSE [raised |-> NoError, G |-> add_edges_from(G2, control.edges),
              fork_count |-> count1]

\* Introduce concurrency between component DAGs, attach the error handler
\* and the start and end nodes.  [raised, G, fork_count].
process_components(G, count, error_handler) ==
    LET fj == add_fork_join(G, count)
        parallel == number_weakly_connected_components(G) > 1
        G1 == IF parallel THEN add_edges_from(G, fj.edges) ELSE G
        count1 == IF parallel THEN fj.count ELSE count
        err == add_error_node(G1, error_handler)
        failed == error_handler # None /\ err.raised # NoError
        G2 == IF error_handler # None THEN add_edges_from(G1, err.edges) ELSE G1
        control == add_start_end(G2)
    IN  IF failed
        THEN [raised |-> err.raised, G |-> G1, fork_count |-> count1]
        ELSE IF control.raised # NoError
        THEN [raised |-> control.raised, G |-> G2, fork_count |-> count1]
        ELSE [raised |-> NoError, G |-> add_edges_from(G2, control.edges),
              fork_count |-> count1]

\* The names of workflow.actions and the names their dependencies use.
action_names(workflow) == {workflow.actions[i].name : i \in 1..Len(workflow.actions)}

dep_actions(workflow) ==
    UNION {workflow.actions[i].dependencies : i \in 1..Len(workflow.actions)}

Node(a) == Action(a.name, a.action_type)

\* action_dict[name]
action_dict(workflow, name) ==
    LET i == CHOOSE j \in 1..Len(workflow.actions) : workflow.actions[j].name = name
    IN  Node(workflow.actions[i])

\* The raw dependency graph: [raised, missing, G].  The edge list is built
\* with action_dict[dependency], which raises KeyError for a name that is
\* no action, before the issubset test is reached.
build_input_graph(workflow) ==
    LET names == action_names(workflow)
        acts == {workflow.actions[i] : i \in 1..Len(workflow.actions)}
        lookup_fails == \E a \in acts : \E d \in a.dependencies : d \notin names
        dependencies == {<<action_dict(workflow, e[1]), Node(e[2])>> :
                            e \in {p \in names \X acts : p[1] \in p[2].dependencies}}
        input_graph == add_nodes_from(add_edges_from(DiGraph, dependencies),
                                      {Node(a) : a \in acts})
    IN  IF lookup_fails
        THEN [raised |-> KeyError, missing |-> {}, G |-> DiGraph]
        ELSE IF ~(dep_actions(workflow) \subseteq names)
        THEN [raised |-> MissingError, missing |-> dep_actions(workflow) \ names,
              G |-> DiGraph]
        ELSE [raised |-> NoError, missing |-> {}, G |-> input_graph]

-----------------------------------------------------------------------------
(* OozieWorkflow: the emitted elements *)

\* One child element of <workflow-app>: its tag, its name attribute, the
\* target of its to / <ok to> transition, the target of its <error to>
\* transition and the names of its <path> children ("" and {} when absent).
Element(tag, name, to, error, paths) ==
    [tag |-> tag, name |-> name, to |-> to, error |-> error, paths |-> paths]

\* The element build_xml_tree emits for node a whose first neighbour is
\* next_action (the failure transition goes to error_node unless a is
\* named error_handler).
emit_element(G, a, next_action, error_node) ==
    IF a.action_type = "start" THEN Element("start", "", next_action.name, "", {})
    ELSE IF a.action_type = "end" THEN Element("end", a.name, "", "", {})
    ELSE IF a.action_type = "fork"
    THEN Element("fork", a.name, "", "", {path.name : path \in successors(G, a)})
    ELSE IF a.action_type = "join" THEN Element("join", a.name, next_action.name, "", {})
    ELSE IF a.name = "error_handler"
    THEN Element("action", a.name, next_action.name, "", {})
    ELSE Element("action", a.name, next_action.name, error_node.name, {})

\* Whether the element of a reads next(transition).
needs_transition(a) == a.action_type \notin {"end", "fork"}

-----------------------------------------------------------------------------
(* The inputs *)

\* The dependency sets of n actions in which action i depends only on
\* actions before it: every acyclic dependency graph, up to renaming.
RECURSIVE ForwardDeps(_)
ForwardDeps(n) ==
    IF n = 0 THEN {<<>>}
    ELSE {Append(d, s) : d \in ForwardDeps(n - 1),
                         s \in SUBSET {Alphabet[j] : j \in 1..(n - 1)}}

\* Whether action `name` depends on action `on`, directly or through others.
RECURSIVE DependsOn(_, _, _)
DependsOn(deps, name, on) ==
    \E j \in 1..Len(deps) :
        /\ Alphabet[j] = name
        /\ \/ on \in deps[j]
           \/ \E d \in deps[j] : DependsOn(deps, d, on)

\* One more dependency <<i, name>> for action i that makes the input
\* invalid: on itself, on an action that depends on i (closing a cycle), or
\* on a name that is no action.  <<0, Unknown>> adds none.
ExtraDeps(n, deps) ==
    {<<0, Unknown>>}
        \cup {<<i, Unknown>> : i \in 1..n}
        \cup {<<i, Alphabet[i]>> : i \in 1..n}
        \cup {e \in (1..n) \X {Alphabet[j] : j \in 1..n} : DependsOn(deps, e[2], Alphabet[e[1]])}

\* The input Workflow.  dependencies is a set of names, empty for an action
\* without dependencies (a dependencies of None is not among the inputs).
Workflow(n, deps, extra, handler) ==
    [name |-> "wf",
     actions |-> [i \in 1..n |->
                    [name |-> Alphabet[i], action_type |-> "shell",
                     dependencies |-> deps[i] \cup (IF extra[1] = i THEN {extra[2]} ELSE {})]],
     error_handler |-> handler]

-----------------------------------------------------------------------------
(* Action as a value: the dataclass fields and the generated __eq__ *)

\* Action(name, action_type, dependencies, config)
FullAction(name, action_type, dependencies, config) ==
    [name |-> name, action_type |-> action_type, dependencies |-> dependencies,
     config |-> config]

\* Variant of action_eq that compares the names only.
action_eq_by_name(a, b) == <<a.name>> = <<b.name>>

\* Action.__eq__ as @dataclass generates it: the tuples of all the fields
\* are compared (hash=False takes a field out of __hash__, not of __eq__).
action_eq(a, b) ==
    <<a.name, a.action_type, a.dependencies, a.config>>
        = <<b.name, b.action_type, b.dependencies, b.config>>

\* Action.__hash__ under unsafe_hash=True: the fields with hash left on.
action_hash(a) == <<a.name, a.action_type>>

NotCompared == "not compared"

-----------------------------------------------------------------------------
(* The run: OozieWorkflow.generate *)

VARIABLES
    workflow,        \* the input Workflow
    pc,              \* position of the run
    input_graph,     \* build_workflow_graph: input_graph
    components,      \* build_workflow_dag: components not yet processed
    G,               \* parrallelize_subcomponent: the remaining component
    sub_component,   \* parrallelize_subcomponent: the structured segment so far
    subcomponents,   \* build_workflow_dag: the processed components
    fork_count,      \* WorkflowGraphBuilder.fork_count
    workflow_graph,  \* generate: workflow_graph, once bound
    raised,          \* the exception build_workflow_graph raised, if any
    missing,         \* the dependency names a MissingError message names
    log,             \* what generate logged
    top_order,       \* build_xml_tree: top_order
    error_node,      \* build_xml_tree: error_node
    doc,             \* the children of the root element, in document order
    written,         \* whether write_xml wrote the document
    run,             \* which call of build_workflow_graph on this workflow this is
    first_graph,     \* the graph the first call returned
    lhs,             \* Action.__eq__: self
    rhs,             \* Action.__eq__: other
    equal            \* Action.__eq__: the result, once computed

vars == <<workflow, pc, input_graph, components, G, sub_component, subcomponents,
          fork_count, workflow_graph, raised, missing, log, top_order, error_node,
          doc, written, run, first_graph, lhs, rhs, equal>>

Init ==
    /\ \E n \in 1..MaxActions : \E deps \in ForwardDeps(n) : \E extra \in ExtraDeps(n, deps) :
       \E handler \in {None} \cup {Action(h, "email") : h \in HandlerNames} :
           workflow = Workflow(n, deps, extra, handler)
    /\ pc = "build_input_graph"
    /\ input_graph = DiGraph
    /\ components = {}
    /\ G = DiGraph
    /\ sub_component = DiGraph
    /\ subcomponents = {}
    /\ fork_count = 0
    /\ workflow_graph = DiGraph
    /\ raised = NoError
    /\ missing = {}
    /\ log = <<>>
    /\ top_order = <<>>
    /\ error_node = None
    /\ doc = <<>>
    /\ written = FALSE
    /\ run = 1
    /\ first_graph = DiGraph
    /\ lhs = FullAction("A", "shell", {}, "c1")
    /\ rhs = FullAction("A", "shell", {}, "c1")
    /\ equal = NotCompared

\* generate: `except WorkflowGraphError` logs and goes on to build_xml_tree
\* with workflow_graph unbound; any other exception leaves generate.
Raise(error) ==
    /\ raised' = error
    /\ IF error = KeyError
       THEN pc' = "crashed" /\ log' = log
       ELSE pc' = "build_xml" /\ log' = Append(log, "Unable to generate workflow")

\* build_workflow_graph: input_graph = self.build_input_graph(self.workflow)
BuildInputGraph ==
    /\ pc = "build_input_graph"
    /\ LET r == build_input_graph(workflow)
       IN  /\ input_graph' = r.G
           /\ missing' = r.missing
           /\ IF r.raised # NoError
              THEN Raise(r.raised)
              ELSE pc' = "check_dag" /\ UNCHANGED <<raised, log>>
    /\ UNCHANGED <<workflow, components, G, sub_component, subcomponents, fork_count,
                   workflow_graph, top_order, error_node, doc, written>>
    /\ UNCHANGED <<run, first_graph, lhs, rhs, equal>>

\* build_workflow_graph: the acyclicity gate.
CheckAcyclic ==
    /\ pc = "check_dag"
    /\ IF ~is_directed_acyclic_graph(input_graph)
       THEN Raise(CyclicError)
       ELSE pc' = "get_components" /\ UNCHANGED <<raised, log>>
    /\ UNCHANGED <<workflow, input_graph, components, G, sub_component, subcomponents,
                   fork_count, workflow_graph, missing, top_order, error_node, doc,
                   written>>
    /\ UNCHANGED <<run, first_graph, lhs, rhs, equal>>

\* build_workflow_dag: components = self.get_components(G)
GetComponents ==
    /\ pc = "get_components"
    /\ components' = {subgraph(input_graph, c) : c \in weakly_connected_components(input_graph)}
    /\ pc' = "process_subcomponent"
    /\ UNCHANGED <<workflow, input_graph, G, sub_component, subcomponents, fork_count,
                   workflow_graph, raised, missing, log, top_order, error_node, doc,
                   written>>
    /\ UNCHANGED <<run, first_graph, lhs, rhs, equal>>

\* Where a component stands in get_components(G): the components come in the
\* order of the input graph's nodes.  build_input_graph adds the edges first,
\* action by action, so a component with edges stands where its first action
\* with dependencies stands; the actions without any edge follow, in the
\* order of workflow.actions.
component_rank(w, c) ==
    LET n == Len(w.actions)
        members == {i \in 1..n : Node(w.actions[i]) \in c.nodes}
        dependent == {i \in members : w.actions[i].dependencies # {}}
        first(S) == CHOOSE i \in S : \A j \in S : i <= j
    IN  IF dependent # {} THEN first(dependent) ELSE n + first(members)

\* build_workflow_dag: the next call of process_subcomponent(c), in the
\* order of get_components(G).
ProcessSubcomponent ==
    /\ pc = "process_subcomponent"
    /\ \E c \in components :
        /\ \A d \in components : component_rank(workflow, c) <= component_rank(workflow, d)
        /\ components' = components \ {c}
        /\ G' = c
    /\ sub_component' = DiGraph
    /\ pc' = "parrallelize"
    /\ UNCHANGED <<workflow, input_graph, subcomponents, fork_count, workflow_graph,
                   raised, missing, log, top_order, error_node, doc, written>>
    /\ UNCHANGED <<run, first_graph, lhs, rhs, equal>>

\* Variant of first_exits that takes the last exit of the composed graph.
last_exits(sub, composed) ==
    LET new == exit_nodes(composed) \ sub.nodes
    IN  IF new # {} THEN new ELSE exit_nodes(composed)

\* exit_nodes(composed)[0]: the nodes of sub_component come first in the
\* composed graph, so the first exit is one of them when there is one.
first_exits(sub, composed) ==
    LET old == exit_nodes(composed) \cap sub.nodes
    IN  IF old # {} THEN old ELSE exit_nodes(composed)

\* One pass of the while loop with len(paths) > 1.
ForkJoinPass ==
    /\ pc = "parrallelize"
    /\ number_of_nodes(G) > 0
    /\ Cardinality(forkless_paths(G)) > 1
    /\ \E result \in {fork_join_segment(G, fork_count)} :
       \E composed \in {compose(sub_component, result)} :
           IF sub_component.nodes # {}
           THEN \E entry \in entry_nodes(result) : \E exit \in first_exits(sub_component, composed) :
                    sub_component' = add_edges_from(composed, {<<exit, entry>>})
           ELSE sub_component' = composed
    /\ fork_count' = add_fork_join(subgraph(G, paths_flatten(G)), fork_count).count
    /\ G' = remove_nodes_from(G, paths_flatten(G))
    /\ UNCHANGED <<workflow, pc, input_graph, components, subcomponents, workflow_graph,
                   raised, missing, log, top_order, error_node, doc, written>>
    /\ UNCHANGED <<run, first_graph, lhs, rhs, equal>>

\* Variant of append_path that adds the edge the other way round.
append_path_reversed(sub, remaining, n) ==
    IF sub.nodes # {}
    THEN LET m == CHOOSE node \in entry_nodes(remaining) : TRUE
         IN  add_edges_from(sub, {<<m, n>>})
    ELSE compose(sub, subgraph(remaining, paths_flatten(remaining)))

\* What the pass with one path appends: the edge from exit node n of
\* sub_component to the first node of the path, or the whole path when
\* sub_component is still empty.
append_path(sub, remaining, n) ==
    IF sub.nodes # {}
    THEN LET m == CHOOSE node \in entry_nodes(remaining) : TRUE
         IN  add_edges_from(sub, {<<n, m>>})
    ELSE compose(sub, subgraph(remaining, paths_flatten(remaining)))

\* Variant of SinglePathPass that leaves the path in the remaining component.
SinglePathPassKeepingPath ==
    /\ pc = "parrallelize"
    /\ number_of_nodes(G) > 0
    /\ Cardinality(forkless_paths(G)) = 1
    /\ IF sub_component.nodes # {}
       THEN \E n \in exit_nodes(sub_component) :
                sub_component' = append_path(sub_component, G, n)
       ELSE sub_component' = append_path(sub_component, G, None)
    /\ UNCHANGED <<workflow, pc, input_graph, components, subcomponents, fork_count,
                   workflow_graph, raised, missing, log, top_order, error_node, doc,
                   written, G>>
    /\ UNCHANGED <<run, first_graph, lhs, rhs, equal>>

\* One pass of the while loop with len(paths) == 1.
SinglePathPass ==
    /\ pc = "parrallelize"
    /\ number_of_nodes(G) > 0
    /\ Cardinality(forkless_paths(G)) = 1
    /\ IF sub_component.nodes # {}
       THEN \E n \in exit_nodes(sub_component) :
                sub_component' = append_path(sub_component, G, n)
       ELSE sub_component' = append_path(sub_component, G, None)
    /\ G' = remove_nodes_from(G, paths_flatten(G))
    /\ UNCHANGED <<workflow, pc, input_graph, components, subcomponents, fork_count,
                   workflow_graph, raised, missing, log, top_order, error_node, doc,
                   written>>
    /\ UNCHANGED <<run, first_graph, lhs, rhs, equal>>

\* parrallelize_subcomponent returns sub_component.
ReturnSubcomponent ==
    /\ pc = "parrallelize"
    /\ number_of_nodes(G) = 0
    /\ subcomponents' = subcomponents \cup {sub_component}
    /\ pc' = IF components = {} THEN "process_components" ELSE "process_subcomponent"
    /\ UNCHANGED <<workflow, input_graph, components, G, sub_component, fork_count,
                   workflow_graph, raised, missing, log, top_order, error_node, doc,
                   written>>
    /\ UNCHANGED <<run, first_graph, lhs, rhs, equal>>

\* build_workflow_dag: compose_all and process_components; build_workflow_graph
\* returns the graph, or process_components raises.
ProcessComponents ==
    /\ pc = "process_components"
    /\ LET r == process_components(compose_all(subcomponents), fork_count,
                                   workflow.error_handler)
       IN  /\ fork_count' = r.fork_count
           /\ IF r.raised # NoError
              THEN Raise(r.raised) /\ UNCHANGED workflow_graph
              ELSE /\ workflow_graph' = r.G
                   /\ pc' = "build_xml"
                   /\ UNCHANGED <<raised, log>>
    /\ UNCHANGED <<workflow, input_graph, components, G, sub_component, subcomponents,
                   missing, top_order, error_node, doc, written>>
    /\ UNCHANGED <<run, first_graph, lhs, rhs, equal>>

\* generate: build_xml_tree(workflow_graph) with workflow_graph unbound
\* raises, `except Exception` logs it, and nothing is written.
BuildXmlUnbound ==
    /\ pc = "build_xml"
    /\ raised # NoError
    /\ log' = Append(log, "Failed to build XML")
    /\ pc' = "done"
    /\ UNCHANGED <<workflow, input_graph, components, G, sub_component, subcomponents,
                   fork_count, workflow_graph, raised, missing, top_order, error_node,
                   doc, written>>
    /\ UNCHANGED <<run, first_graph, lhs, rhs, equal>>

\* The nodes topological_sort can yield next: every predecessor is out.
sort_ready(graph, order) ==
    {n \in graph.nodes \ Range(order) : predecessors(graph, n) \subseteq Range(order)}

\* build_xml_tree: top_order takes the next node of topological_sort(G).
TopologicalSort ==
    /\ pc = "build_xml"
    /\ raised = NoError
    /\ \E n \in sort_ready(workflow_graph, top_order) : top_order' = Append(top_order, n)
    /\ UNCHANGED <<workflow, pc, input_graph, components, G, sub_component, subcomponents,
                   fork_count, workflow_graph, raised, missing, log, error_node, doc,
                   written>>
    /\ UNCHANGED <<run, first_graph, lhs, rhs, equal>>

\* build_xml_tree: error_node = top_order[-2]
PickErrorNode ==
    /\ pc = "build_xml"
    /\ raised = NoError
    /\ Range(top_order) = workflow_graph.nodes
    /\ error_node' = top_order[Len(top_order) - 1]
    /\ pc' = "emit"
    /\ UNCHANGED <<workflow, input_graph, components, G, sub_component, subcomponents,
                   fork_count, workflow_graph, raised, missing, log, top_order, doc,
                   written>>
    /\ UNCHANGED <<run, first_graph, lhs, rhs, equal>>

\* build_xml_tree: one turn of `for a in top_order`.  next(transition) on a
\* node without neighbours raises, which generate logs.
EmitElement ==
    /\ pc = "emit"
    /\ Len(doc) < Len(top_order)
    /\ LET a == top_order[Len(doc) + 1]
           transition == successors(workflow_graph, a)
       IN  IF needs_transition(a) /\ transition = {}
           THEN /\ log' = Append(log, "Failed to build XML")
                /\ pc' = "done"
                /\ doc' = doc
           ELSE /\ \E next_action \in (IF needs_transition(a) THEN transition ELSE {None}) :
                      doc' = Append(doc, emit_element(workflow_graph, a, next_action, error_node))
                /\ UNCHANGED <<pc, log>>
    /\ UNCHANGED <<workflow, input_graph, components, G, sub_component, subcomponents,
                   fork_count, workflow_graph, raised, missing, top_order, error_node,
                   written>>
    /\ UNCHANGED <<run, first_graph, lhs, rhs, equal>>

\* generate: self.write_xml(tree)
WriteXml ==
    /\ pc = "emit"
    /\ Len(doc) = Len(top_order)
    /\ written' = TRUE
    /\ pc' = "done"
    /\ UNCHANGED <<workflow, input_graph, components, G, sub_component, subcomponents,
                   fork_count, workflow_graph, raised, missing, log, top_order, error_node,
                   doc>>
    /\ UNCHANGED <<run, first_graph, lhs, rhs, equal>>

Next ==
    \/ BuildInputGraph
    \/ CheckAcyclic
    \/ GetComponents
    \/ ProcessSubcomponent
    \/ ForkJoinPass
    \/ SinglePathPass
    \/ ReturnSubcomponent
    \/ ProcessComponents
    \/ BuildXmlUnbound
    \/ TopologicalSort
    \/ PickErrorNode
    \/ EmitElement
    \/ WriteXml

Spec == Init /\ [][Next]_vars

-----------------------------------------------------------------------------
(* The builder called more than once on the same workflow *)

\* Variant of builder_fork_count: one counter shared by every builder.
shared_fork_count(previous) == previous

\* WorkflowGraphBuilder(workflow): fork_count is a field of the new builder
\* and defaults to 0, whatever count the builder before it reached.
builder_fork_count(previous) == 0

\* WorkflowGraphBuilder(workflow).build_workflow_graph() once more, after a
\* call that returned or raised WorkflowGraphError.
NewRun ==
    /\ pc = "build_xml"
    /\ top_order = <<>>
    /\ run < MaxRuns
    /\ run' = run + 1
    /\ first_graph' = IF run = 1 THEN workflow_graph ELSE first_graph
    /\ fork_count' = builder_fork_count(fork_count)
    /\ pc' = "build_input_graph"
    /\ input_graph' = DiGraph
    /\ components' = {}
    /\ G' = DiGraph
    /\ sub_component' = DiGraph
    /\ subcomponents' = {}
    /\ workflow_graph' = DiGraph
    /\ raised' = NoError
    /\ missing' = {}
    /\ UNCHANGED <<workflow, log, top_order, error_node, doc, written, lhs, rhs, equal>>

BuilderNext ==
    \/ BuildInputGraph
    \/ CheckAcyclic
    \/ GetComponents
    \/ ProcessSubcomponent
    \/ ForkJoinPass
    \/ SinglePathPass
    \/ ReturnSubcomponent
    \/ ProcessComponents

\* One call of build_workflow_graph.  The builder is sequential code: while
\* the loop of parrallelize_subcomponent can take its next pass, it does.
BuilderSpec ==
    /\ Init
    /\ [][BuilderNext]_vars
    /\ WF_vars(ForkJoinPass)
    /\ WF_vars(SinglePathPass)

RerunNext == BuilderNext \/ NewRun

\* Up to MaxRuns calls of build_workflow_graph on one workflow.
RerunSpec == Init /\ [][RerunNext]_vars

-----------------------------------------------------------------------------
(* Two Action values compared *)

\* The Action values compared: two names, two types, two dependency sets and
\* two configurations.
ActionValues ==
    {FullAction(name, action_type, dependencies, config) :
        name \in {"A", "B"}, action_type \in {"shell", "email"},
        dependencies \in {{}, {"A"}}, config \in {"c1", "c2"}}

ActionInit ==
    /\ workflow = Workflow(1, <<{}>>, <<0, Unknown>>, None)
    /\ pc = "compare"
    /\ input_graph = DiGraph
    /\ components = {}
    /\ G = DiGraph
    /\ sub_component = DiGraph
    /\ subcomponents = {}
    /\ fork_count = 0
    /\ workflow_graph = DiGraph
    /\ raised = NoError
    /\ missing = {}
    /\ log = <<>>
    /\ top_order = <<>>
    /\ error_node = None
    /\ doc = <<>>
    /\ written = FALSE
    /\ run = 1
    /\ first_graph = DiGraph
    /\ lhs \in ActionValues
    /\ rhs \in ActionValues
    /\ equal = NotCompared

\* lhs == rhs
CompareActions ==
    /\ pc = "compare"
    /\ equal = NotCompared
    /\ equal' = IF action_eq(lhs, rhs) THEN "equal" ELSE "not equal"
    /\ UNCHANGED <<workflow, pc, input_graph, components, G, sub_component, subcomponents,
                   fork_count, workflow_graph, raised, missing, log, top_order, error_node,
                   doc, written, run, first_graph, lhs, rhs>>

ActionNext == CompareActions

ActionSpec == ActionInit /\ [][ActionNext]_vars

-----------------------------------------------------------------------------
(* Vocabulary of the properties *)

\* build_workflow_graph returned workflow_graph to generate.
Returned == pc \in {"build_xml", "emit", "done"} /\ raised = NoError

\* build_workflow_graph has just returned: no later step of the run
\* changes workflow_graph or fork_count.
AtReturn == pc = "build_xml" /\ raised = NoError /\ top_order = <<>>

\* The input actions, as graph nodes.
InputActions == {Node(workflow.actions[i]) : i \in 1..Len(workflow.actions)}

HasHandler == workflow.error_handler # None

ControlTypes == {"start", "end", "fork", "join"}

\* The nodes of a graph other than start, end, fork-i, join-i and the error handler.
OrdinaryActions(graph) ==
    {n \in graph.nodes : n.action_type \notin ControlTypes /\ n # workflow.error_handler}

ForkNodes(graph) == {n \in graph.nodes : n.action_type = "fork"}
JoinNodes(graph) == {n \in graph.nodes : n.action_type = "join"}

StartNode == Action("start", "start")
EndNode == Action("end", "end")

\* Every dependency names an action, and the dependency graph has a cycle.
DepsResolve == dep_actions(workflow) \subseteq action_names(workflow)

\* The nodes reachable from the nodes of `frontier` along the edges.
RECURSIVE Reachable(_, _)
Reachable(graph, frontier) ==
    LET more == UNION {successors(graph, n) : n \in frontier} \ frontier
    IN  IF more = {} THEN frontier ELSE Reachable(graph, frontier \cup more)

\* Some node reaches itself along one edge or more.
HasCycle(graph) == \E n \in graph.nodes : n \in Reachable(graph, successors(graph, n))

InputCyclic == DepsResolve /\ HasCycle(build_input_graph(workflow).G)
InputAcyclic == DepsResolve /\ ~HasCycle(build_input_graph(workflow).G)

-----------------------------------------------------------------------------
(* C1 *)

\* C1: in the graph build_workflow_dag returns for an acyclic input with
\* all dependencies resolved, the ordinary-action nodes are exactly the
\* input actions: none dropped, none added.
C1_ActionsPreserved ==
    (Returned /\ InputAcyclic) => OrdinaryActions(workflow_graph) = InputActions

-----------------------------------------------------------------------------
(* C2 *)

\* C2: the structured graph returned for an acyclic input is acyclic, its
\* only node of in-degree 0 is start and its only node of out-degree 0 is end.
C2_SingleStartEnd ==
    AtReturn =>
        /\ ~HasCycle(workflow_graph)
        /\ entry_nodes(workflow_graph) = {StartNode}
        /\ exit_nodes(workflow_graph) = {EndNode}

-----------------------------------------------------------------------------
(* C3 *)

\* C3: in the structured graph of a run that synthesized fork_count pairs,
\* the fork nodes are exactly fork-0 .. fork-(fork_count - 1) and the join
\* nodes exactly join-0 .. join-(fork_count - 1).
C3_ForkJoinPaired ==
    AtReturn =>
        /\ ForkNodes(workflow_graph) =
              {Action(ForkNames[i + 1], "fork") : i \in 0..(fork_count - 1)}
        /\ JoinNodes(workflow_graph) =
              {Action(JoinNames[i + 1], "join") : i \in 0..(fork_count - 1)}

-----------------------------------------------------------------------------
(* C9 *)

\* C9: in every structured graph returned, start, every join, every
\* ordinary action and the error handler have exactly one outgoing edge,
\* end has none and every fork has at least 2; every emitted start, join
\* and action element carries its one success transition and every fork
\* element at least 2 paths.
C9_OutDegrees ==
    /\ AtReturn =>
          \A n \in workflow_graph.nodes :
              /\ n.action_type = "end" => out_degree(workflow_graph, n) = 0
              /\ n.action_type = "fork" => out_degree(workflow_graph, n) >= 2
              /\ n.action_type \notin {"end", "fork"} => out_degree(workflow_graph, n) = 1
    /\ \A i \in 1..Len(doc) :
          /\ doc[i].tag \in {"start", "join", "action"} =>
                doc[i].to \in {m.name : m \in successors(workflow_graph, top_order[i])}
          /\ doc[i].tag = "fork" => Cardinality(doc[i].paths) >= 2

\* C9 witness: a document was written for a graph with a fork/join pair
\* and an error handler.
C9_Witness ==
    /\ pc = "done" /\ written /\ HasHandler
    /\ \E i \in 1..Len(doc) : doc[i].tag = "fork" /\ Cardinality(doc[i].paths) >= 2
    /\ \E i \in 1..Len(doc) : doc[i].tag = "join" /\ doc[i].to = workflow.error_handler.name

-----------------------------------------------------------------------------
(* C2, C3: witnesses *)

\* C2 witness: a graph with an intra-component fork/join pair was returned.
C2_Witness ==
    /\ Returned /\ fork_count >= 1
    /\ number_weakly_connected_components(input_graph) = 1
    /\ Len(workflow.actions) = MaxActions

\* C3 witness: a run that synthesized an intra-component pair and the
\* top-level pair returned its graph.
C3_Witness ==
    /\ Returned /\ fork_count >= 2
    /\ number_weakly_connected_components(input_graph) > 1

-----------------------------------------------------------------------------
(* C4 *)

\* C4: when the dependency graph has a cycle, build_workflow_graph raises
\* the cyclic-dependency error at the gate: no component is taken, no
\* fork/join pair is synthesized, no graph is returned, and no element is
\* emitted or document written.
C4_CycleRejected ==
    InputCyclic =>
        /\ pc \notin {"build_input_graph", "check_dag"} => raised = CyclicError
        /\ components = {} /\ subcomponents = {} /\ sub_component = DiGraph
        /\ fork_count = 0
        /\ workflow_graph = DiGraph
        /\ top_order = <<>> /\ doc = <<>> /\ ~written
        /\ pc \in {"build_input_graph", "check_dag", "build_xml", "done"}

\* C4 witness: a run on a cycle of two actions has ended.
C4_Witness ==
    /\ InputCyclic /\ pc = "done" /\ raised = CyclicError
    /\ \A e \in input_graph.edges : e[1] # e[2]

-----------------------------------------------------------------------------
(* C5 *)

\* C5: when an action declares a dependency that names no action,
\* build_input_graph fails with the missing-dependency error, whose
\* message names exactly the unresolved names.
C5_MissingDependencyError ==
    (~DepsResolve /\ pc # "build_input_graph") =>
        /\ raised = MissingError
        /\ missing = dep_actions(workflow) \ action_names(workflow)

-----------------------------------------------------------------------------
(* C6 *)

\* The action elements of the document that carry a name.
ActionElements(name) ==
    {i \in 1..Len(doc) : doc[i].tag = "action" /\ doc[i].name = name}

\* C6: in a document written for a workflow with error handler H, every
\* ordinary action other than H has one element, whose failure transition
\* goes to H, and the element of H has no failure transition.
C6_FailureTransitions ==
    (HasHandler /\ written) =>
        /\ \A a \in InputActions :
              /\ Cardinality(ActionElements(a.name)) = 1
              /\ \A i \in ActionElements(a.name) : doc[i].error = workflow.error_handler.name
        /\ \A i \in ActionElements(workflow.error_handler.name) : doc[i].error = ""

-----------------------------------------------------------------------------
(* C7 *)

\* C7: in every topological order of a structured graph built with an
\* error handler, the last element is end and the one before it the
\* handler (which is what error_node becomes); the handler is the only
\* predecessor of end and has one predecessor itself.
C7_HandlerPenultimate ==
    (HasHandler /\ Returned) =>
        /\ AtReturn =>
              /\ predecessors(workflow_graph, EndNode) = {workflow.error_handler}
              /\ in_degree(workflow_graph, workflow.error_handler) = 1
        /\ pc \in {"emit", "done"} =>
              /\ top_order[Len(top_order)] = EndNode
              /\ top_order[Len(top_order) - 1] = workflow.error_handler
              /\ error_node = workflow.error_handler

\* C7 witness: error_node was taken from an order of a graph with a
\* handler and a fork/join pair (a graph with several topological orders).
C7_Witness ==
    /\ HasHandler /\ pc = "emit" /\ fork_count >= 1
    /\ error_node = workflow.error_handler

-----------------------------------------------------------------------------
(* C8 *)

\* C8: without an error handler, the error-routing node the emitter takes
\* is an ordinary action, never a fork or join.
C8_ErrorNodeIsAction ==
    (~HasHandler /\ pc \in {"emit", "done"} /\ raised = NoError) =>
        error_node \in InputActions

-----------------------------------------------------------------------------
(* C10 *)

\* The input is one chain A -> B -> ... without error handler.
ChainInput ==
    /\ ~HasHandler
    /\ \A i \in 1..Len(workflow.actions) :
          workflow.actions[i].dependencies = IF i = 1 THEN {} ELSE {Alphabet[i - 1]}

\* start, a1, ..., an, end
ChainNode(k, n) ==
    IF k = 0 THEN StartNode ELSE IF k = n + 1 THEN EndNode ELSE Action(Alphabet[k], "shell")

ChainGraph(n) ==
    [nodes |-> {ChainNode(k, n) : k \in 0..(n + 1)},
     edges |-> {<<ChainNode(k, n), ChainNode(k + 1, n)>> : k \in 0..n}]

\* C10: for a chain of n actions and no error handler the structured graph
\* is exactly start -> a1 -> ... -> an -> end, and the document lists
\* these n + 2 elements in that order, each start and action element with
\* its success transition to the next.
C10_PureSequence ==
    LET n == Len(workflow.actions)
    IN  ChainInput =>
            /\ pc \in {"build_xml", "emit", "done"} =>
                  raised = NoError /\ workflow_graph = ChainGraph(n)
            /\ pc = "done" => written
            /\ written =>
                  /\ Len(doc) = n + 2
                  /\ \A k \in 1..(n + 2) :
                        /\ doc[k].tag = IF k = 1 THEN "start"
                                        ELSE IF k = n + 2 THEN "end" ELSE "action"
                        /\ doc[k].name = IF k = 1 THEN "" ELSE ChainNode(k - 1, n).name
                        /\ doc[k].to = IF k = n + 2 THEN "" ELSE ChainNode(k, n).name
                        /\ doc[k].paths = {}

\* C10 witness: the document of the longest chain was written.
C10_Witness ==
    ChainInput /\ Len(workflow.actions) = MaxActions /\ written

-----------------------------------------------------------------------------
(* C11 *)

\* The input is one root A and k >= 2 actions that each depend on A only,
\* without error handler.
SplitInput ==
    /\ ~HasHandler
    /\ Len(workflow.actions) >= 3
    /\ \A i \in 1..Len(workflow.actions) :
          workflow.actions[i].dependencies = IF i = 1 THEN {} ELSE {Alphabet[1]}

\* start -> A -> fork-0 -> each of the k actions -> join-0 -> end
SplitGraph(n) ==
    LET root == Action(Alphabet[1], "shell")
        branches == {Action(Alphabet[i], "shell") : i \in 2..n}
        fork == Action(ForkNames[1], "fork")
        join == Action(JoinNames[1], "join")
    IN  [nodes |-> {StartNode, root, fork, join, EndNode} \cup branches,
         edges |-> {<<StartNode, root>>, <<root, fork>>, <<join, EndNode>>}
                       \cup {<<fork, b>> : b \in branches}
                       \cup {<<b, join>> : b \in branches}]

\* C11: for a root A and k >= 2 actions that each depend only on A, without
\* error handler, the builder returns, and the structured graph has exactly
\* the edges start -> A, A -> fork-0, fork-0 -> each of the k actions, each
\* of the k actions -> join-0 and join-0 -> end.
C11_ParallelSplit ==
    SplitInput =>
        (pc \in {"build_xml", "emit", "done"} =>
            raised = NoError /\ workflow_graph = SplitGraph(Len(workflow.actions)))

\* C11 witness: the graph of the widest split was returned.
C11_Witness ==
    SplitInput /\ Len(workflow.actions) = MaxActions /\ Returned /\ fork_count = 1

-----------------------------------------------------------------------------
(* C12 *)

\* C12: when the input has m >= 2 weakly-connected components the returned
\* graph has exactly one fork/join pair outside the components' structured
\* subgraphs, the last one numbered; that fork has exactly m outgoing
\* edges, one to the entry node of each component's subgraph, that join
\* exactly m incoming edges, one from each subgraph's exit node, start leads
\* to that fork and that join to end, or to the error handler when there is
\* one.  With one component there is no such pair: start leads to the
\* component's entry node.
C12_TopLevelPair ==
    AtReturn =>
        LET m == number_weakly_connected_components(input_graph)
            inner_forks == UNION {ForkNodes(sc) : sc \in subcomponents}
            inner_joins == UNION {JoinNodes(sc) : sc \in subcomponents}
            entries == UNION {entry_nodes(sc) : sc \in subcomponents}
            exits == UNION {exit_nodes(sc) : sc \in subcomponents}
            last == IF HasHandler THEN workflow.error_handler ELSE EndNode
        IN  /\ Cardinality(subcomponents) = m
            /\ \A sc \in subcomponents :
                  Cardinality(entry_nodes(sc)) = 1 /\ Cardinality(exit_nodes(sc)) = 1
            /\ m >= 2 =>
                  LET fork == Action(ForkNames[fork_count], "fork")
                      join == Action(JoinNames[fork_count], "join")
                  IN  /\ ForkNodes(workflow_graph) \ inner_forks = {fork}
                      /\ JoinNodes(workflow_graph) \ inner_joins = {join}
                      /\ successors(workflow_graph, fork) = entries
                      /\ out_degree(workflow_graph, fork) = m
                      /\ predecessors(workflow_graph, join) = exits
                      /\ in_degree(workflow_graph, join) = m
                      /\ successors(workflow_graph, StartNode) = {fork}
                      /\ successors(workflow_graph, join) = {last}
            /\ m = 1 =>
                  /\ ForkNodes(workflow_graph) = inner_forks
                  /\ JoinNodes(workflow_graph) = inner_joins
                  /\ successors(workflow_graph, StartNode) = entries
                  /\ \A x \in exits : successors(workflow_graph, x) = {last}

\* C12 witness: a graph was returned for two components, one of them with
\* a fork/join pair of its own, and an error handler.
C12_Witness ==
    /\ AtReturn /\ HasHandler
    /\ number_weakly_connected_components(input_graph) = 2
    /\ \E sc \in subcomponents : ForkNodes(sc) # {}

-----------------------------------------------------------------------------
(* C13 *)

\* C13: two Actions are equal exactly when they have the same name: with
\* the same name they are equal whatever their action_type, dependencies
\* and config, and with different names they are never equal.
C13_EqualityByName ==
    equal # NotCompared => ((equal = "equal") <=> (lhs.name = rhs.name))

\* C13, amended: two Actions are equal exactly when their name, action_type,
\* dependencies and config are all the same; Actions with different names
\* are never equal, and equal Actions have the same hash.
C13_EqualityByFields ==
    equal # NotCompared =>
        /\ (equal = "equal") <=>
              /\ lhs.name = rhs.name
              /\ lhs.action_type = rhs.action_type
              /\ lhs.dependencies = rhs.dependencies
              /\ lhs.config = rhs.config
        /\ lhs.name # rhs.name => equal = "not equal"
        /\ equal = "equal" => action_hash(lhs) = action_hash(rhs)

\* C13 witness: two Actions with the same name and different action_type
\* were compared and found unequal.
C13_Witness ==
    /\ equal = "not equal"
    /\ lhs.name = rhs.name
    /\ lhs.action_type # rhs.action_type
    /\ lhs.dependencies = rhs.dependencies
    /\ lhs.config = rhs.config

-----------------------------------------------------------------------------
(* C14 *)

\* v is the unique successor of u and u the unique predecessor of v.
UniqueLink(graph, u, v) ==
    successors(graph, u) = {v} /\ predecessors(graph, v) = {u}

\* v is the only child of u, and v has one edge in and one edge out.
SingleEdgeLink(graph, u, v) ==
    successors(graph, u) = {v} /\ in_degree(graph, v) = 1 /\ out_degree(graph, v) = 1

\* C14: the chain single_edge_path extracts from a root of the remaining
\* component starts at the root, each of its nodes is followed by its
\* unique successor, of which it is the unique predecessor, and it is
\* maximal: the walk stops only when the last node has no successor or
\* several, or its successor has another predecessor.
C14_MaximalChain ==
    pc = "parrallelize" =>
        \A root \in entry_nodes(G) :
            LET path == single_edge_path(G, root)
            IN  /\ path[1] = root
                /\ \A i \in 1..(Len(path) - 1) : UniqueLink(G, path[i], path[i + 1])
                /\ ~\E v \in G.nodes : UniqueLink(G, path[Len(path)], v)

\* C14, amended: the chain starts at the root, each of its nodes is followed
\* by its only child, which has exactly one edge in and one edge out, and
\* the walk stops when the last node has no child or several, or its only
\* child has another parent, or its only child has no child or several.
C14_SingleEdgeChain ==
    pc = "parrallelize" =>
        \A root \in entry_nodes(G) :
            LET path == single_edge_path(G, root)
            IN  /\ path[1] = root
                /\ \A i \in 1..(Len(path) - 1) : SingleEdgeLink(G, path[i], path[i + 1])
                /\ ~\E v \in G.nodes : SingleEdgeLink(G, path[Len(path)], v)

\* C14 witness: a chain of two nodes or more that stopped before the only
\* child of its last node, a child without another parent.
C14_Witness ==
    /\ pc = "parrallelize"
    /\ \E root \in entry_nodes(G) :
          LET path == single_edge_path(G, root)
          IN  Len(path) >= 2 /\ \E v \in G.nodes : UniqueLink(G, path[Len(path)], v)

-----------------------------------------------------------------------------
(* C15 *)

\* C15: the loop of parrallelize_subcomponent terminates: while the
\* remaining component has nodes it has a root, every chain walked from a
\* root is a finite sequence of distinct nodes, every pass takes at least
\* one node out of the remaining component, and the loop is left with the
\* remaining component empty.
C15_LoopTerminates ==
    /\ [](pc = "parrallelize" /\ G.nodes # {} =>
            /\ entry_nodes(G) # {}
            /\ \A root \in entry_nodes(G) :
                  LET path == single_edge_path(G, root)
                  IN  /\ Len(path) >= 1
                      /\ Cardinality(Range(path)) = Len(path)
                      /\ Range(path) \subseteq G.nodes)
    /\ [][pc = "parrallelize" /\ G.nodes # {} =>
            /\ pc' = "parrallelize"
            /\ G'.nodes \subseteq G.nodes
            /\ Cardinality(G'.nodes) < Cardinality(G.nodes)]_vars
    /\ (pc = "parrallelize") ~> (pc = "parrallelize" /\ G.nodes = {})

\* C15 witness: the loop has ended on a component of MaxActions actions
\* that took a pass with several chains and passes with one.
C15_Witness ==
    /\ pc = "parrallelize"
    /\ G.nodes = {}
    /\ ForkNodes(sub_component) # {}
    /\ Cardinality(OrdinaryActions(sub_component)) = MaxActions

-----------------------------------------------------------------------------
(* C16 *)

-----------------------------------------------------------------------------
(* C17 *)

\* The exit of the segment a pass adds: the join just created when the
\* pass has several chains, the last node of the chain when it has one.
SegmentExit(remaining, count) ==
    IF Cardinality(forkless_paths(remaining)) > 1
    THEN Action(JoinNames[count + 1], "join")
    ELSE LET path == CHOOSE q \in forkless_paths(remaining) : TRUE
         IN  path[Len(path)]

\* The splice of a pass on a non-empty sub_component: one new edge, from
\* the only exit node of sub_component to a node of the segment added; no
\* other new edge touches the nodes sub_component had.
SplicedAtExit(before, after) ==
    \E exit \in exit_nodes(before) : \E entry \in after.nodes \ before.nodes :
        /\ exit_nodes(before) = {exit}
        /\ {e \in after.edges \ before.edges : e[1] \in before.nodes \/ e[2] \in before.nodes}
              = {<<exit, entry>>}

\* C17 without its statement of which node the exit is: after every pass
\* sub_component is non-empty with one entry node and one exit node, and
\* the splice starts from the exit node sub_component had before the pass.
C17_OneEntryOneExit ==
    [][pc = "parrallelize" /\ G.nodes # {} =>
          /\ sub_component'.nodes # {}
          /\ Cardinality(entry_nodes(sub_component')) = 1
          /\ Cardinality(exit_nodes(sub_component')) = 1
          /\ sub_component.nodes # {} => SplicedAtExit(sub_component, sub_component')]_vars

\* C17: after every pass sub_component is non-empty and has exactly one
\* entry node and exactly one exit node, the exit of the segment just
\* added (the last node of its chain, or its join); the splice of the next
\* pass starts from that exit node and never from a node of the segment
\* being added.
C17_UniqueSplicePoint ==
    [][pc = "parrallelize" /\ G.nodes # {} =>
          /\ sub_component'.nodes # {}
          /\ Cardinality(entry_nodes(sub_component')) = 1
          /\ exit_nodes(sub_component') = {SegmentExit(G, fork_count)}
          /\ sub_component.nodes # {} => SplicedAtExit(sub_component, sub_component')]_vars

-----------------------------------------------------------------------------
(* C18 *)

\* There is a path of one edge or more from u to v.
Path(graph, u, v) == v \in Reachable(graph, successors(graph, u))

\* The nodes of the branch of `fork` that starts at `head`: those between
\* head and the join of the pair.
Branch(graph, head, join) ==
    {n \in Reachable(graph, {head}) : Path(graph, n, join)}

\* C18: in every structured graph returned, for every dependency edge
\* (u, v) of the input whose two actions are nodes of the structured graph
\* there is a directed path from u to v; and two actions on different
\* branches of the same fork-i/join-i pair are never connected by a
\* dependency path of the input, in either direction.
C18_OrderPreserved ==
    AtReturn =>
        /\ \A e \in input_graph.edges :
              (e[1] \in workflow_graph.nodes /\ e[2] \in workflow_graph.nodes)
                  => Path(workflow_graph, e[1], e[2])
        /\ \A i \in 1..fork_count :
              LET fork == Action(ForkNames[i], "fork")
                  join == Action(JoinNames[i], "join")
              IN  \A b1 \in successors(workflow_graph, fork) :
                  \A b2 \in successors(workflow_graph, fork) \ {b1} :
                  \A x \in Branch(workflow_graph, b1, join) \cap InputActions :
                  \A y \in Branch(workflow_graph, b2, join) \cap InputActions :
                      ~Path(input_graph, x, y)

\* C18 witness: a graph was returned with a pair inside a component, the
\* top-level pair, and a dependency edge kept as a path of several edges.
C18_Witness ==
    /\ AtReturn
    /\ fork_count >= 2
    /\ \E e \in input_graph.edges :
          /\ Path(workflow_graph, e[1], e[2])
          /\ <<e[1], e[2]>> \notin workflow_graph.edges

-----------------------------------------------------------------------------
(* C19 *)

\* C19: for every input whose dependencies all name actions and form no
\* cycle, with or without error handler, the builder returns a graph: it
\* never raises 'Multiple transitions found for start/end nodes' nor
\* 'Multiple transitions found for error node', whatever it raises is a
\* cycle or an unresolved dependency of the input, and no step of
\* build_workflow_dag is left without a component or a chain to go on with.
C19_Totality ==
    /\ raised \notin {StartEndError, ErrorNodeError}
    /\ raised = CyclicError => DepsResolve /\ HasCycle(input_graph)
    /\ raised \in {KeyError, MissingError} => ~DepsResolve
    /\ pc = "process_subcomponent" => components # {}
    /\ (pc = "parrallelize" /\ G.nodes # {}) => forkless_paths(G) # {}
    /\ pc = "process_components" => subcomponents # {}
    /\ Returned => {StartNode, EndNode} \subseteq workflow_graph.nodes

\* C19 witness: the builder returned for MaxActions actions in several
\* components, one with a fork/join pair of its own, and an error handler.
C19_Witness ==
    /\ AtReturn /\ HasHandler
    /\ Len(workflow.actions) = MaxActions
    /\ Cardinality(subcomponents) >= 2
    /\ fork_count >= 2

====
